---- MODULE Spec2Model ----
(***************************************************************************)
(* Authentication session lifecycle of aMAZE-AI.                           *)
(*                                                                         *)
(*   AuthService  (services/auth.service.ts)  - thin layer over the        *)
(*                 credential provider (Firebase Auth) and the profile     *)
(*                 store (Firestore collection 'users').                   *)
(*   AuthProvider (contexts/AuthContext.tsx)  - React state {user,loading} *)
(*                 fed by AuthService.onAuthStateChanged and by the four   *)
(*                 operations.                                             *)
(*                                                                         *)
(* Every await on the provider or on the store is a suspension point: one  *)
(* action per completion of such a call, the synchronous continuation up   *)
(* to the next await being part of the same action.  createdAt/updatedAt   *)
(* are not modelled (no clock); all other User fields written by the code  *)
(* are.                                                                    *)
(***************************************************************************)
EXTENDS Integers, Sequences, FiniteSets, TLC

VARIABLES
    store,      \* Firestore 'users' collection: uid -> User document or NullUser
    profile,    \* provider-side account of each uid (the FirebaseUser fields)
    authUser,   \* auth.currentUser: a uid or Null
    authReady,  \* the provider has finished restoring its persisted credential
    nEvents,    \* number of credential changes the provider has announced
    sub,        \* state of each onAuthStateChanged subscription
    tasks,      \* listener invocations suspended inside convertFirebaseUserToUser
    delivered,  \* per subscriber: sequence numbers of the events its callback got
    user,       \* AuthProvider state: useState<User | null>
    loading,    \* AuthProvider state: useState(true)
    nSetUser,   \* updates of the mounted AuthProvider state since the last operation started
    call,       \* the operation each UI call site has in flight, and its outcome
    nOps,       \* number of operations started so far
    retry,      \* the activation of retryWithBackoff: its arguments, locals and outcome
    hook,       \* the last call of useAuth(): where it was made and its outcome
    got         \* what the last call of authService.getCurrentUser() returned

authVars == <<store, profile, authUser, authReady, nEvents, sub, tasks, delivered,
              user, loading, nSetUser, call, nOps>>
vars == <<authVars, retry, hook, got>>

(***************************************************************************)
(* Bounds                                                                  *)
(***************************************************************************)
\* operations started in one run
MaxOps == 2
\* listener invocations suspended in the profile store at the same time
MaxPending == 2
\* largest maxRetries retryWithBackoff is called with
RetryLimit == 4

\* maxRetries: number = 3
DefaultMaxRetries == 3

Uids == {"u1", "u2"}
Callers == {1, 2}
Names == {"N"}

(***************************************************************************)
(* JavaScript values                                                       *)
(***************************************************************************)
Null == "null"
Undefined == "undefined"
Empty == ""

\* a || b
OrElse(a, b) == IF a = Null \/ a = Undefined \/ a = Empty THEN b ELSE a

NullUser ==
    [uid |-> Null, email |-> Null, displayName |-> Null, photoURL |-> Null,
     role |-> Null, themePreference |-> Null, interests |-> Null]

NoProfile == [uid |-> Null, email |-> Null, displayName |-> Null, photoURL |-> Null]

EmailOf(uid) == IF uid = "u1" THEN "a@x.com" ELSE "b@x.com"

\* the account the provider creates on a first Google sign-in
GoogleProfile(uid) ==
    [uid |-> uid, email |-> EmailOf(uid), displayName |-> "G", photoURL |-> "p.jpg"]

\* the account the provider creates on createUserWithEmailAndPassword
EmailProfile(uid) ==
    [uid |-> uid, email |-> EmailOf(uid), displayName |-> Null, photoURL |-> Null]

DefaultRole == "creator"
DefaultTheme == "light"

\* NewUser with the wrong default role
NewUserConsumer(fu) ==
    [uid |-> fu.uid,
     email |-> OrElse(fu.email, Empty),
     displayName |-> OrElse(fu.displayName, Empty),
     photoURL |-> OrElse(fu.photoURL, Undefined),
     role |-> "consumer",
     themePreference |-> DefaultTheme,
     interests |-> Undefined]

\* the newUser literal of convertFirebaseUserToUser
NewUser(fu) ==
    [uid |-> fu.uid,
     email |-> OrElse(fu.email, Empty),
     displayName |-> OrElse(fu.displayName, Empty),
     photoURL |-> OrElse(fu.photoURL, Undefined),
     role |-> DefaultRole,
     themePreference |-> DefaultTheme,
     interests |-> Undefined]

\* a sign-up document that takes the email as its uid
SignUpUserEmailAsUid(fu, displayName) ==
    [uid |-> OrElse(fu.email, Empty),
     email |-> OrElse(fu.email, Empty),
     displayName |-> displayName,
     photoURL |-> OrElse(fu.photoURL, Undefined),
     role |-> DefaultRole,
     themePreference |-> DefaultTheme,
     interests |-> Undefined]

\* the newUser literal of signUpWithEmail
SignUpUser(fu, displayName) ==
    [uid |-> fu.uid,
     email |-> OrElse(fu.email, Empty),
     displayName |-> displayName,
     photoURL |-> OrElse(fu.photoURL, Undefined),
     role |-> DefaultRole,
     themePreference |-> DefaultTheme,
     interests |-> Undefined]

\* userDoc.exists()
Exists(doc) == doc.uid # Null

\* auth.currentUser: null until the provider has restored its credential
currentUser == IF authReady THEN authUser ELSE Null

\* a getCurrentUser that returns the stored document when there is one
getCurrentUserStored ==
    IF currentUser = Null THEN NullUser
    ELSE IF store[currentUser].uid # Null THEN store[currentUser]
    ELSE NewUser(profile[currentUser])

\* getCurrentUser()
getCurrentUser ==
    IF currentUser = Null THEN NullUser ELSE NewUser(profile[currentUser])

\* default: of getAuthErrorMessage
DefaultErrorMessage == "An error occurred during authentication. Please try again."

getAuthErrorMessageNoInvalidCredential(errorCode) ==
    CASE errorCode = "auth/invalid-email" -> "The email address is invalid."
      [] errorCode = "auth/user-disabled" -> "This account has been disabled."
      [] errorCode = "auth/user-not-found" -> "No account found with this email address."
      [] errorCode = "auth/wrong-password" -> "Incorrect password. Please try again."
      [] errorCode = "auth/email-already-in-use" -> "An account with this email already exists."
      [] errorCode = "auth/weak-password" -> "Password should be at least 6 characters."
      [] errorCode = "auth/operation-not-allowed" -> "This sign-in method is not enabled."
      [] errorCode = "auth/popup-closed-by-user" -> "Sign-in popup was closed before completing."
      [] errorCode = "auth/cancelled-popup-request" -> "Only one popup request is allowed at a time."
      [] errorCode = "auth/network-request-failed" -> "Network error. Please check your connection."
      [] errorCode = "auth/too-many-requests" -> "Too many failed attempts. Please try again later."
      [] OTHER -> DefaultErrorMessage

\* getAuthErrorMessage(errorCode)
getAuthErrorMessage(errorCode) ==
    CASE errorCode = "auth/invalid-email" -> "The email address is invalid."
      [] errorCode = "auth/user-disabled" -> "This account has been disabled."
      [] errorCode = "auth/user-not-found" -> "No account found with this email address."
      [] errorCode = "auth/wrong-password" -> "Incorrect password. Please try again."
      [] errorCode = "auth/email-already-in-use" -> "An account with this email already exists."
      [] errorCode = "auth/weak-password" -> "Password should be at least 6 characters."
      [] errorCode = "auth/operation-not-allowed" -> "This sign-in method is not enabled."
      [] errorCode = "auth/popup-closed-by-user" -> "Sign-in popup was closed before completing."
      [] errorCode = "auth/cancelled-popup-request" -> "Only one popup request is allowed at a time."
      [] errorCode = "auth/network-request-failed" -> "Network error. Please check your connection."
      [] errorCode = "auth/too-many-requests" -> "Too many failed attempts. Please try again later."
      [] errorCode = "auth/invalid-credential" -> "Invalid credentials. Please check your email and password."
      [] OTHER -> DefaultErrorMessage

\* the code a rejected Firestore call carries (FirestoreError.code)
StoreErrorCode == "unavailable"

\* codes with which the provider rejects each operation
FailCodes(op) ==
    CASE op = "google" -> {"auth/popup-closed-by-user"}
      [] op = "email" -> {"auth/wrong-password"}
      [] op = "signUp" -> {"auth/weak-password"}
      [] op = "signOut" -> {"auth/network-request-failed"}
      [] OTHER -> {}

\* profile edits made by the rest of the application: updateUser(uid, data)
Patches ==
    { [role |-> "admin", themePreference |-> "dark", interests |-> "i1"] }

ApplyPatch(doc, p) ==
    [doc EXCEPT !.role = p.role, !.themePreference = p.themePreference,
                !.interests = p.interests]


(***************************************************************************)
(* State                                                                   *)
(***************************************************************************)
\* "ctx" is the subscription AuthProvider's effect makes, "obs" one that
\* another part of the application may make
Subscribers == {"ctx", "obs"}

IdleCall ==
    [op |-> "none", pc |-> "idle", uid |-> Null, name |-> Null,
     newUser |-> NullUser, status |-> "none", value |-> NullUser, msg |-> Empty,
     code |-> Empty, writes |-> 0, ord |-> 0, conc |-> FALSE,
     pre |-> [user |-> NullUser, loading |-> TRUE], solo |-> FALSE]

\* retryWithBackoff before it is called.  log is the outcome of each
\* invocation of operation so far and delays the timeouts awaited so far.
IdleRetry ==
    [pc |-> "idle", maxRetries |-> 0, baseDelay |-> 0, attempt |-> 0,
     log |-> << >>, delays |-> << >>, result |-> Null, error |-> Null]

\* no component has called useAuth() yet.  A context value is a set: empty
\* for undefined, else holding the value.
IdleHook ==
    [called |-> FALSE, inside |-> FALSE, threw |-> FALSE, msg |-> Empty, value |-> {}]

\* the document a returning user already has
StoredU1 ==
    [uid |-> "u1", email |-> "a@x.com", displayName |-> "A", photoURL |-> Undefined,
     role |-> "consumer", themePreference |-> "dark", interests |-> "i1"]

Init ==
    /\ profile = [u \in Uids |-> IF u = "u1"
                                 THEN [uid |-> "u1", email |-> "a@x.com",
                                       displayName |-> "A", photoURL |-> Null]
                                 ELSE NoProfile]
    /\ store \in {[u \in Uids |-> NullUser],
                  [u \in Uids |-> IF u = "u1" THEN StoredU1 ELSE NullUser]}
    /\ authUser \in {Null, "u1"}
    /\ authReady = FALSE
    /\ nEvents = 0
    /\ sub = [s \in Subscribers |-> IF s = "ctx" THEN "on" ELSE "none"]
    /\ tasks = {}
    /\ delivered = [s \in Subscribers |-> << >>]
    /\ user = NullUser
    /\ loading = TRUE
    /\ nSetUser = 0
    /\ call = [c \in Callers |-> IdleCall]
    /\ nOps = 0
    /\ retry = IdleRetry
    /\ hook = IdleHook
    /\ got = [called |-> FALSE, value |-> NullUser]

Mounted == sub["ctx"] = "on"
Registered(u) == profile[u].uid # Null
Active(c) == call[c].pc \notin {"idle", "done"}
Quiescent == authReady /\ tasks = {} /\ \A c \in Callers : ~Active(c)

(***************************************************************************)
(* AuthProvider state updates.  A session is [user, loading, n]; n counts  *)
(* the updates that change the React state (a User object is always a new  *)
(* object; null over null and false over false change nothing).  Updates   *)
(* to an unmounted component are dropped by React.                         *)
(***************************************************************************)
Sess == [user |-> user, loading |-> loading, n |-> nSetUser]

\* a setUser that shows the loading state again when the user is cleared
SetUserResetsLoading(s, v) ==
    IF ~Mounted THEN s
    ELSE [s EXCEPT !.user = v,
                   !.loading = IF v = NullUser THEN TRUE ELSE @,
                   !.n = @ + 1]

\* setUser(v)
SetUser(s, v) ==
    IF ~Mounted THEN s
    ELSE [s EXCEPT !.user = v,
                   !.n = IF v = NullUser /\ s.user = NullUser THEN @ ELSE @ + 1]

\* a subscription callback that leaves the loading flag alone
AuthCallbackKeepLoading(s, v) ==
    IF ~Mounted THEN s
    ELSE [s EXCEPT !.user = v,
                   !.n = IF v = NullUser /\ s.user = NullUser THEN @ ELSE @ + 1]

\* the callback AuthProvider subscribes: setUser(user); setLoading(false)
AuthCallback(s, v) ==
    IF ~Mounted THEN s
    ELSE [s EXCEPT !.user = v, !.loading = FALSE,
                   !.n = IF v = NullUser /\ s.user = NullUser /\ ~s.loading
                         THEN @ ELSE @ + 1]

\* a listener that finishes its awaits and never calls back
CallbackNotCalled(x, s, v) == s

\* callback(v) of subscriber x
Callback(x, s, v) == IF x = "ctx" THEN AuthCallback(s, v) ELSE s

Commit(s) ==
    /\ user' = s.user
    /\ loading' = s.loading
    /\ nSetUser' = s.n

(***************************************************************************)
(* onAuthStateChanged: the listener AuthService registers with the         *)
(* provider.  The provider invokes it for every subscription that is on,   *)
(* in the order of the credential changes; with a credential the listener  *)
(* suspends in convertFirebaseUserToUser, without one it calls back at     *)
(* once.                                                                   *)
(***************************************************************************)
On == {x \in Subscribers : sub[x] = "on"}

ListenerTasks(fu, seq) ==
    IF fu = Null THEN {}
    ELSE {[seq |-> seq, sub |-> x, uid |-> fu, pc |-> "get", newUser |-> NullUser] : x \in On}

ListenerDelivered(fu, seq) ==
    [x \in Subscribers |->
        IF fu = Null /\ x \in On THEN Append(delivered[x], seq) ELSE delivered[x]]

\* a listener that does not call back when there is no credential
ListenerSessSilent(s, fu) == s

ListenerSess(s, fu) ==
    IF fu = Null /\ "ctx" \in On THEN AuthCallback(s, NullUser) ELSE s

\* the provider sets auth.currentUser to fu and announces it when it changed
Announce(fu, changed) ==
    /\ (changed /\ fu # Null) => Cardinality(tasks) < MaxPending
    /\ authUser' = fu
    /\ IF changed
       THEN /\ nEvents' = nEvents + 1
            /\ tasks' = tasks \cup ListenerTasks(fu, nEvents + 1)
            /\ delivered' = ListenerDelivered(fu, nEvents + 1)
       ELSE UNCHANGED <<nEvents, tasks, delivered>>

\* the provider finishes restoring the persisted credential (process start)
AuthReady ==
    /\ ~authReady
    /\ authReady' = TRUE
    /\ Announce(authUser, TRUE)
    /\ Commit(ListenerSess(Sess, authUser))
    /\ UNCHANGED <<retry, hook, got, store, profile, sub, call, nOps>>


(***************************************************************************)
(* The four operations, as AuthProvider exposes them.  A call site starts  *)
(* an operation while the provider component is mounted; solo records      *)
(* whether the call was made with nothing else in flight and has run alone *)
(* on a mounted component since, and pre the session at the moment of such *)
(* a call; code is the error.code the operation caught and writes the      *)
(* number of setDoc calls it has made; conc records that another call was  *)
(* in flight at some moment of this one, and ord the position of the call  *)
(* among the completed ones.                                               *)
(***************************************************************************)
StartCall(c, op, uid, name) ==
    /\ Mounted
    /\ ~Active(c)
    /\ nOps < MaxOps
    /\ nOps' = nOps + 1
    /\ nSetUser' = 0
    /\ call' = [x \in Callers |->
                  IF x = c
                  THEN [op |-> op, pc |-> "provider", uid |-> uid, name |-> name,
                        newUser |-> NullUser, status |-> "none", value |-> NullUser,
                        msg |-> Empty, code |-> Empty, writes |-> 0,
                        ord |-> 0, conc |-> \E y \in Callers \ {c} : Active(y),
                        pre |-> IF Quiescent THEN [user |-> user, loading |-> loading]
                                ELSE IdleCall.pre,
                        solo |-> Quiescent]
                  ELSE [call[x] EXCEPT !.solo = FALSE, !.pre = IdleCall.pre,
                                       !.conc = IF Active(x) THEN TRUE ELSE @]]
    /\ UNCHANGED <<retry, hook, got, store, profile, authUser, authReady, nEvents, sub, tasks,
                   delivered, user, loading>>

SignInWithGoogle(c, uid) == StartCall(c, "google", uid, Null)
SignInWithEmail(c, uid) == StartCall(c, "email", uid, Null)
SignUpWithEmail(c, uid, name) == StartCall(c, "signUp", uid, name)
SignOut(c) == StartCall(c, "signOut", Null, Null)

\* the position of call c among the calls that have completed
CompletionOrder(c) == 1 + Cardinality({x \in Callers \ {c} : call[x].pc = "done"})

\* the call resolves with value v
Resolve(c, v) ==
    call' = [call EXCEPT ![c].pc = "done", ![c].status = "ok", ![c].value = v,
                         ![c].ord = CompletionOrder(c),
                         ![c].writes = IF call[c].pc = "set" THEN @ + 1 ELSE @]

\* catch (error) { throw new Error(this.getAuthErrorMessage(error.code)) }
Reject(c, code) ==
    call' = [call EXCEPT ![c].pc = "done", ![c].status = "err",
                         ![c].code = code,
                         ![c].ord = CompletionOrder(c),
                         ![c].msg = getAuthErrorMessage(code),
                         ![c].writes = IF call[c].pc = "set" THEN @ + 1 ELSE @]

\* codes the provider can reject the call with
RejectCodes(c) ==
    FailCodes(call[c].op)
      \cup (IF call[c].op = "email" /\ ~Registered(call[c].uid)
            THEN {"auth/user-not-found"} ELSE {})
      \cup (IF call[c].op = "signUp" /\ Registered(call[c].uid)
            THEN {"auth/email-already-in-use"} ELSE {})

\* a rejection after which the session is cleared all the same
ProviderRejectClearing(c, code) ==
    /\ call[c].pc = "provider"
    /\ Reject(c, code)
    /\ Commit(SetUser(Sess, NullUser))
    /\ UNCHANGED <<retry, hook, got, store, profile, authUser, authReady, nEvents, sub, tasks,
                   delivered, nOps>>

ProviderReject(c, code) ==
    /\ call[c].pc = "provider"
    /\ Reject(c, code)
    /\ UNCHANGED <<retry, hook, got, store, profile, authUser, authReady, nEvents, sub, tasks,
                   delivered, user, loading, nSetUser, nOps>>

\* signInWithPopup(auth, provider) resolves
SignInWithPopupOk(c) ==
    /\ call[c].pc = "provider" /\ call[c].op = "google"
    /\ authReady
    /\ profile' = IF Registered(call[c].uid) THEN profile
                  ELSE [profile EXCEPT ![call[c].uid] = GoogleProfile(call[c].uid)]
    /\ Announce(call[c].uid, authUser # call[c].uid)
    /\ call' = [call EXCEPT ![c].pc = "get"]
    /\ UNCHANGED <<retry, hook, got, store, authReady, sub, user, loading, nSetUser, nOps>>

\* signInWithEmailAndPassword(auth, email, password) resolves
SignInWithEmailAndPasswordOk(c) ==
    /\ call[c].pc = "provider" /\ call[c].op = "email"
    /\ authReady
    /\ Registered(call[c].uid)
    /\ Announce(call[c].uid, authUser # call[c].uid)
    /\ call' = [call EXCEPT ![c].pc = "get"]
    /\ UNCHANGED <<retry, hook, got, store, profile, authReady, sub, user, loading, nSetUser, nOps>>

\* createUserWithEmailAndPassword(auth, email, password) resolves
CreateUserOk(c) ==
    /\ call[c].pc = "provider" /\ call[c].op = "signUp"
    /\ authReady
    /\ ~Registered(call[c].uid)
    /\ profile' = [profile EXCEPT ![call[c].uid] = EmailProfile(call[c].uid)]
    /\ Announce(call[c].uid, authUser # call[c].uid)
    /\ call' = [call EXCEPT ![c].pc = "profile"]
    /\ UNCHANGED <<retry, hook, got, store, authReady, sub, user, loading, nSetUser, nOps>>

\* updateProfile(result.user, { displayName }) resolves; newUser is built
UpdateProfileOk(c) ==
    /\ call[c].pc = "profile"
    /\ profile' = [profile EXCEPT ![call[c].uid].displayName = call[c].name]
    /\ call' = [call EXCEPT ![c].pc = "set",
                            ![c].newUser = SignUpUser(profile[call[c].uid], call[c].name)]
    /\ UNCHANGED <<retry, hook, got, store, authUser, authReady, nEvents, sub, tasks, delivered,
                   user, loading, nSetUser, nOps>>

UpdateProfileFail(c) ==
    /\ call[c].pc = "profile"
    /\ Reject(c, "auth/network-request-failed")
    /\ UNCHANGED <<retry, hook, got, store, profile, authUser, authReady, nEvents, sub, tasks,
                   delivered, user, loading, nSetUser, nOps>>

\* convertFirebaseUserToUser that rebuilds the user from the credential even
\* when a document is stored
convertIgnoringStored(userDoc, firebaseUser) == NewUser(firebaseUser)

\* convertFirebaseUserToUser after getDoc: the stored document, or a new one
convertFirebaseUserToUser(userDoc, firebaseUser) ==
    IF Exists(userDoc) THEN userDoc ELSE NewUser(firebaseUser)

\* getDoc(userRef) resolves inside signInWithGoogle / signInWithEmail
CallGetDocOk(c) ==
    /\ call[c].pc = "get"
    /\ LET u == convertFirebaseUserToUser(store[call[c].uid], profile[call[c].uid]) IN
         IF Exists(store[call[c].uid])
         THEN /\ Resolve(c, u)
              /\ Commit(SetUser(Sess, u))
         ELSE /\ call' = [call EXCEPT ![c].pc = "set", ![c].newUser = u]
              /\ UNCHANGED <<user, loading, nSetUser>>
    /\ UNCHANGED <<retry, hook, got, store, profile, authUser, authReady, nEvents, sub, tasks,
                   delivered, nOps>>

\* getDoc or setDoc rejects inside an operation
CallStoreFail(c) ==
    /\ call[c].pc \in {"get", "set"}
    /\ Reject(c, StoreErrorCode)
    /\ UNCHANGED <<retry, hook, got, store, profile, authUser, authReady, nEvents, sub, tasks,
                   delivered, user, loading, nSetUser, nOps>>

\* an operation that returns the new user without having written it
CallSetDocOkNoWrite(c) ==
    /\ call[c].pc = "set"
    /\ Resolve(c, call[c].newUser)
    /\ Commit(SetUser(Sess, call[c].newUser))
    /\ UNCHANGED <<retry, hook, got, store, profile, authUser, authReady, nEvents, sub, tasks,
                   delivered, nOps>>

\* setDoc(userRef, newUser) resolves inside an operation
CallSetDocOk(c) ==
    /\ call[c].pc = "set"
    /\ store' = [store EXCEPT ![call[c].uid] = call[c].newUser]
    /\ Resolve(c, call[c].newUser)
    /\ Commit(SetUser(Sess, call[c].newUser))
    /\ UNCHANGED <<retry, hook, got, profile, authUser, authReady, nEvents, sub, tasks, delivered, nOps>>

\* a sign-out that leaves the clearing of the session to the listener
FirebaseSignOutOkNoSetUser(c) ==
    /\ call[c].pc = "provider" /\ call[c].op = "signOut"
    /\ authReady
    /\ Announce(Null, authUser # Null)
    /\ Resolve(c, NullUser)
    /\ Commit(IF authUser # Null THEN ListenerSess(Sess, Null) ELSE Sess)
    /\ UNCHANGED <<retry, hook, got, store, profile, authReady, sub, nOps>>

\* firebaseSignOut(auth) resolves; AuthProvider.signOut then does setUser(null)
FirebaseSignOutOk(c) ==
    /\ call[c].pc = "provider" /\ call[c].op = "signOut"
    /\ authReady
    /\ Announce(Null, authUser # Null)
    /\ Resolve(c, NullUser)
    /\ Commit(SetUser(IF authUser # Null THEN ListenerSess(Sess, Null) ELSE Sess, NullUser))
    /\ UNCHANGED <<retry, hook, got, store, profile, authReady, sub, nOps>>

(***************************************************************************)
(* Listener invocations suspended in convertFirebaseUserToUser             *)
(***************************************************************************)
Deliver(t) == delivered' = [delivered EXCEPT ![t.sub] = Append(@, t.seq)]

TaskGetDocOk(t) ==
    /\ t \in tasks /\ t.pc = "get"
    /\ LET u == convertFirebaseUserToUser(store[t.uid], profile[t.uid]) IN
         IF Exists(store[t.uid])
         THEN /\ tasks' = tasks \ {t}
              /\ Deliver(t)
              /\ Commit(Callback(t.sub, Sess, u))
         ELSE /\ tasks' = (tasks \ {t}) \cup {[t EXCEPT !.pc = "set", !.newUser = u]}
              /\ UNCHANGED <<delivered, user, loading, nSetUser>>
    /\ UNCHANGED <<retry, hook, got, store, profile, authUser, authReady, nEvents, sub, call, nOps>>

\* a listener whose setDoc replaces the collection by the one document
TaskSetDocOkReplacing(t) ==
    /\ t \in tasks /\ t.pc = "set"
    /\ store' = [u \in Uids |-> IF u = t.uid THEN t.newUser ELSE NullUser]
    /\ tasks' = tasks \ {t}
    /\ Deliver(t)
    /\ Commit(Callback(t.sub, Sess, t.newUser))
    /\ UNCHANGED <<retry, hook, got, profile, authUser, authReady, nEvents, sub, call, nOps>>

TaskSetDocOk(t) ==
    /\ t \in tasks /\ t.pc = "set"
    /\ store' = [store EXCEPT ![t.uid] = t.newUser]
    /\ tasks' = tasks \ {t}
    /\ Deliver(t)
    /\ Commit(Callback(t.sub, Sess, t.newUser))
    /\ UNCHANGED <<retry, hook, got, profile, authUser, authReady, nEvents, sub, call, nOps>>

\* a listener that logs the error and does not call back
TaskStoreFailSilent(t) ==
    /\ t \in tasks
    /\ tasks' = tasks \ {t}
    /\ UNCHANGED <<retry, hook, got, store, profile, authUser, authReady, nEvents, sub, call, nOps,
                   delivered, user, loading, nSetUser>>

\* catch (error) { console.error(...); callback(null) }
TaskStoreFail(t) ==
    /\ t \in tasks
    /\ tasks' = tasks \ {t}
    /\ Deliver(t)
    /\ Commit(Callback(t.sub, Sess, NullUser))
    /\ UNCHANGED <<retry, hook, got, store, profile, authUser, authReady, nEvents, sub, call, nOps>>

(***************************************************************************)
(* Unmount of AuthProvider: the effect's cleanup calls unsubscribe.  The   *)
(* component's state is frozen from then on; the records kept about it     *)
(* (pre, solo, nSetUser) are dropped.                                      *)
(***************************************************************************)
\* an unsubscribe that removes every listener of the provider
UnsubscribeAll(x) ==
    /\ sub[x] = "on"
    /\ sub' = [y \in Subscribers |-> IF sub[y] = "on" THEN "off" ELSE sub[y]]
    /\ call' = [c \in Callers |-> [call[c] EXCEPT !.solo = FALSE, !.pre = IdleCall.pre]]
    /\ nSetUser' = 0
    /\ UNCHANGED <<retry, hook, got, store, profile, authUser, authReady, nEvents, tasks, delivered,
                   user, loading, nOps>>

\* an effect that runs again: the subscription is switched, off or back on
UnsubscribeResubscribing(x) ==
    /\ sub[x] # "none"
    /\ sub' = [sub EXCEPT ![x] = IF @ = "on" THEN "off" ELSE "on"]
    /\ call' = [c \in Callers |-> [call[c] EXCEPT !.solo = FALSE, !.pre = IdleCall.pre]]
    /\ nSetUser' = 0
    /\ UNCHANGED <<retry, hook, got, store, profile, authUser, authReady, nEvents, tasks, delivered,
                   user, loading, nOps>>

Unsubscribe(x) ==
    /\ sub[x] = "on"
    /\ sub' = [sub EXCEPT ![x] = "off"]
    /\ call' = IF x = "ctx"
               THEN [c \in Callers |-> [call[c] EXCEPT !.solo = FALSE, !.pre = IdleCall.pre]]
               ELSE call
    /\ nSetUser' = IF x = "ctx" THEN 0 ELSE nSetUser
    /\ UNCHANGED <<retry, hook, got, store, profile, authUser, authReady, nEvents, tasks, delivered,
                   user, loading, nOps>>

(***************************************************************************)
(* authService.onAuthStateChanged(callback) called by subscriber x after   *)
(* the provider component has mounted.  A listener registered with an      *)
(* initialised provider is invoked with the current credential, as the     *)
(* latest change; one registered earlier waits for the initialisation.     *)
(***************************************************************************)
Subscribe(x) ==
    /\ sub[x] = "none"
    /\ sub' = [sub EXCEPT ![x] = "on"]
    /\ IF authReady
       THEN /\ authUser # Null => Cardinality(tasks) < MaxPending
            /\ tasks' = tasks \cup
                         (IF authUser = Null THEN {}
                          ELSE {[seq |-> nEvents, sub |-> x, uid |-> authUser,
                                 pc |-> "get", newUser |-> NullUser]})
            /\ delivered' = [delivered EXCEPT
                                ![x] = IF authUser = Null THEN Append(@, nEvents) ELSE @]
       ELSE UNCHANGED <<tasks, delivered>>
    /\ UNCHANGED <<retry, hook, got, store, profile, authUser, authReady, nEvents,
                   user, loading, nSetUser, call, nOps>>

(***************************************************************************)
(* The rest of the application edits a profile: updateUser(uid, data)      *)
(***************************************************************************)
UpdateUser(uid, p) ==
    /\ Exists(store[uid])
    /\ store' = [store EXCEPT ![uid] = ApplyPatch(@, p)]
    /\ UNCHANGED <<retry, hook, got, profile, authUser, authReady, nEvents, sub, tasks, delivered,
                   user, loading, nSetUser, call, nOps>>

NextOf(CS) ==
    \/ AuthReady
    \/ \E c \in CS, u \in Uids : SignInWithGoogle(c, u)
    \/ \E c \in CS, u \in Uids : SignInWithEmail(c, u)
    \/ \E c \in CS, u \in Uids, n \in Names : SignUpWithEmail(c, u, n)
    \/ \E c \in CS : SignOut(c)
    \/ \E c \in CS : \E code \in RejectCodes(c) : ProviderReject(c, code)
    \/ \E c \in CS : SignInWithPopupOk(c)
    \/ \E c \in CS : SignInWithEmailAndPasswordOk(c)
    \/ \E c \in CS : CreateUserOk(c)
    \/ \E c \in CS : UpdateProfileOk(c)
    \/ \E c \in CS : UpdateProfileFail(c)
    \/ \E c \in CS : CallGetDocOk(c)
    \/ \E c \in CS : CallStoreFail(c)
    \/ \E c \in CS : CallSetDocOk(c)
    \/ \E c \in CS : FirebaseSignOutOk(c)
    \/ \E t \in tasks : TaskGetDocOk(t)
    \/ \E t \in tasks : TaskSetDocOk(t)
    \/ \E t \in tasks : TaskStoreFail(t)
    \/ \E x \in Subscribers : Unsubscribe(x)
    \/ \E u \in Uids, p \in Patches : UpdateUser(u, p)

\* one UI call site: operations are issued one after the other
Next == NextOf({1})
Spec == Init /\ [][Next]_vars

\* two UI call sites: operations may overlap
NextConc == NextOf(Callers)
SpecConc == Init /\ [][NextConc]_vars

(***************************************************************************)
(* Provider rejections with every code                                     *)
(***************************************************************************)
\* the codes getAuthErrorMessage has a case for
KnownErrorCodes ==
    {"auth/invalid-email", "auth/user-disabled", "auth/user-not-found",
     "auth/wrong-password", "auth/email-already-in-use", "auth/weak-password",
     "auth/operation-not-allowed", "auth/popup-closed-by-user",
     "auth/cancelled-popup-request", "auth/network-request-failed",
     "auth/too-many-requests", "auth/invalid-credential"}

\* error.code of what a provider call can reject with: a known code, a code
\* without a case, or an error that has no code at all
ErrorCodes == KnownErrorCodes \cup {"auth/internal-error", Undefined}

\* the operations of one UI call site and the listener, where a provider
\* call may reject with any code; the component stays mounted and documents
\* are written by AuthService only
NextErr ==
    \/ AuthReady
    \/ \E u \in Uids : SignInWithGoogle(1, u)
    \/ \E u \in Uids : SignInWithEmail(1, u)
    \/ \E u \in Uids, n \in Names : SignUpWithEmail(1, u, n)
    \/ SignOut(1)
    \/ \E code \in ErrorCodes : ProviderReject(1, code)
    \/ SignInWithPopupOk(1)
    \/ SignInWithEmailAndPasswordOk(1)
    \/ CreateUserOk(1)
    \/ UpdateProfileOk(1)
    \/ UpdateProfileFail(1)
    \/ CallGetDocOk(1)
    \/ CallStoreFail(1)
    \/ CallSetDocOk(1)
    \/ FirebaseSignOutOk(1)
    \/ \E t \in tasks : TaskGetDocOk(t)
    \/ \E t \in tasks : TaskSetDocOk(t)
    \/ \E t \in tasks : TaskStoreFail(t)
SpecErr == Init /\ [][NextErr]_vars

(***************************************************************************)
(* Progress of a provider component that stays mounted: the provider       *)
(* finishes its initialisation, and every getDoc and setDoc of a listener  *)
(* invocation resolves or rejects.                                         *)
(***************************************************************************)
ListenerStep == \E t \in tasks : TaskGetDocOk(t) \/ TaskSetDocOk(t) \/ TaskStoreFail(t)
SpecLive == Init /\ [][NextErr]_vars /\ WF_vars(AuthReady) /\ WF_vars(ListenerStep)

(***************************************************************************)
(* A sign-in at one call site racing a sign-out at another, every provider *)
(* and store call succeeding                                               *)
(***************************************************************************)
NextRace ==
    \/ AuthReady
    \/ \E u \in Uids : SignInWithGoogle(1, u)
    \/ \E u \in Uids : SignInWithEmail(1, u)
    \/ SignOut(2)
    \/ SignInWithPopupOk(1)
    \/ SignInWithEmailAndPasswordOk(1)
    \/ CallGetDocOk(1)
    \/ CallSetDocOk(1)
    \/ FirebaseSignOutOk(2)
    \/ \E t \in tasks : TaskGetDocOk(t)
    \/ \E t \in tasks : TaskSetDocOk(t)
SpecRace == Init /\ [][NextRace]_vars

(***************************************************************************)
(* Two subscribers: AuthProvider's and another one, each subscribing once  *)
(* and unsubscribing when it likes, while Google sign-ins of one account   *)
(* and sign-outs change the credential                                     *)
(***************************************************************************)
NextSubs ==
    \/ AuthReady
    \/ Subscribe("obs")
    \/ \E x \in Subscribers : Unsubscribe(x)
    \/ SignInWithGoogle(1, "u1")
    \/ SignOut(1)
    \/ SignInWithPopupOk(1)
    \/ CallGetDocOk(1)
    \/ CallSetDocOk(1)
    \/ FirebaseSignOutOk(1)
    \/ \E t \in tasks : TaskGetDocOk(t)
    \/ \E t \in tasks : TaskSetDocOk(t)
    \/ \E t \in tasks : TaskStoreFail(t)
SpecSubs == Init /\ [][NextSubs]_vars

(***************************************************************************)
(* authService.getCurrentUser() called at any moment of Google sign-ins,   *)
(* sign-outs, listener invocations and profile edits                       *)
(***************************************************************************)
GetCurrentUser ==
    /\ got' = [called |-> TRUE, value |-> getCurrentUser]
    /\ UNCHANGED <<authVars, retry, hook>>

NextRead ==
    \/ GetCurrentUser
    \/ AuthReady
    \/ \E u \in Uids : SignInWithGoogle(1, u)
    \/ SignOut(1)
    \/ SignInWithPopupOk(1)
    \/ CallGetDocOk(1)
    \/ CallSetDocOk(1)
    \/ FirebaseSignOutOk(1)
    \/ \E t \in tasks : TaskGetDocOk(t)
    \/ \E t \in tasks : TaskSetDocOk(t)
    \/ \E t \in tasks : TaskStoreFail(t)
    \/ \E u \in Uids, p \in Patches : UpdateUser(u, p)
SpecRead == Init /\ [][NextRead]_vars

(***************************************************************************)
(* useAuth(): components inside and outside the provider read the context  *)
(***************************************************************************)
\* useContext(AuthContext): the value of the enclosing AuthContext.Provider,
\* or the default given to createContext, undefined
useContext(inside) ==
    IF inside THEN {[user |-> user, loading |-> loading]} ELSE {}

useAuthUnchecked(context) ==
    [threw |-> FALSE, msg |-> Empty, value |-> context]

\* if (context === undefined) throw new Error(...); return context
useAuth(context) ==
    IF context = {}
    THEN [threw |-> TRUE, msg |-> "useAuth must be used within an AuthProvider",
          value |-> {}]
    ELSE [threw |-> FALSE, msg |-> Empty, value |-> context]

\* a component renders and calls useAuth(), inside the mounted provider or
\* outside any provider
UseAuth(inside) ==
    /\ inside => Mounted
    /\ LET r == useAuth(useContext(inside)) IN
         hook' = [called |-> TRUE, inside |-> inside, threw |-> r.threw,
                  msg |-> r.msg, value |-> r.value]
    /\ UNCHANGED <<authVars, retry, got>>

\* Google sign-ins, the listener and the unmount, with components calling
\* useAuth() at any moment
NextHook ==
    \/ \E inside \in BOOLEAN : UseAuth(inside)
    \/ AuthReady
    \/ \E u \in Uids : SignInWithGoogle(1, u)
    \/ SignInWithPopupOk(1)
    \/ CallGetDocOk(1)
    \/ CallSetDocOk(1)
    \/ \E t \in tasks : TaskGetDocOk(t)
    \/ \E t \in tasks : TaskSetDocOk(t)
    \/ \E t \in tasks : TaskStoreFail(t)
    \/ \E x \in Subscribers : Unsubscribe(x)
SpecHook == Init /\ [][NextHook]_vars

(***************************************************************************)
(* retryWithBackoff                                                        *)
(***************************************************************************)
\* what operation() resolves with and what it rejects with
Values == {"v1"}
Errors == {"e1", "e2"}
BaseDelays == {1, 1000}

RECURSIVE Pow2(_)
\* Math.pow(2, n)
Pow2(n) == IF n = 0 THEN 1 ELSE 2 * Pow2(n - 1)

\* for (let attempt = 0; attempt < maxRetries; ...): enter the body, which
\* invokes operation(), or leave the loop and throw
LoopTest(r) ==
    IF r.attempt < r.maxRetries
    THEN [r EXCEPT !.pc = "call"]
    ELSE [r EXCEPT !.pc = "thrown", !.error = "Max retries exceeded"]

\* retryWithBackoff(operation, maxRetries, baseDelay)
RetryWithBackoff(m, b) ==
    /\ retry.pc = "idle"
    /\ retry' = LoopTest([retry EXCEPT !.maxRetries = m, !.baseDelay = b, !.attempt = 0])
    /\ UNCHANGED <<authVars, hook, got>>

\* return await operation()
OperationOk(v) ==
    /\ retry.pc = "call"
    /\ retry' = [retry EXCEPT !.pc = "returned", !.result = v,
                              !.log = Append(@, [ok |-> TRUE, v |-> v])]
    /\ UNCHANGED <<authVars, hook, got>>

IsLastAttemptOffByOne(r) == r.attempt = r.maxRetries
\* attempt === maxRetries - 1
IsLastAttempt(r) == r.attempt = r.maxRetries - 1

\* catch (error) { if (last attempt) throw error; delay = ...; await timeout }
OperationFail(e) ==
    /\ retry.pc = "call"
    /\ LET r == [retry EXCEPT !.log = Append(@, [ok |-> FALSE, v |-> e])] IN
       retry' = IF IsLastAttempt(r)
                THEN [r EXCEPT !.pc = "thrown", !.error = e]
                ELSE [r EXCEPT !.pc = "sleep",
                               !.delays = Append(@, r.baseDelay * Pow2(r.attempt))]
    /\ UNCHANGED <<authVars, hook, got>>

\* the timeout resolves: attempt++ and the loop test
TimeoutFires ==
    /\ retry.pc = "sleep"
    /\ retry' = LoopTest([retry EXCEPT !.attempt = @ + 1])
    /\ UNCHANGED <<authVars, hook, got>>

NextRetry ==
    \/ \E m \in 0..RetryLimit, b \in BaseDelays : RetryWithBackoff(m, b)
    \/ \E v \in Values : OperationOk(v)
    \/ \E e \in Errors : OperationFail(e)
    \/ TimeoutFires

\* every invocation of operation settles and every timeout fires
SpecRetry == Init /\ [][NextRetry]_vars /\ WF_vars(NextRetry)


(***************************************************************************)
(* Properties                                                              *)
(***************************************************************************)
SignInOps == {"google", "email"}
Done(c) == call[c].pc = "done"
Ok(c) == Done(c) /\ call[c].status = "ok"
Failed(c) == Done(c) /\ call[c].status = "err"
Authenticated(s) == s.user # NullUser /\ ~s.loading

\* C1: a sign-in whose lookup found no document for the uid completes by
\* writing exactly the returned user under that uid, with role creator, theme
\* light and email, display name and photo taken from the credential, and
\* touches no other document.
C1_ResolveOrCreateUnseen ==
    [][\A c \in Callers :
         (/\ call[c].op \in SignInOps
          /\ call[c].pc = "set"
          /\ call'[c].pc = "done" /\ call'[c].status = "ok")
         => LET v == call'[c].value
                fu == profile[call[c].uid]
            IN /\ store'[call[c].uid] = v
               /\ v.uid = call[c].uid
               /\ v.role = "creator"
               /\ v.themePreference = "light"
               /\ v.email = (IF fu.email = Null THEN "" ELSE fu.email)
               /\ v.displayName = (IF fu.displayName = Null THEN "" ELSE fu.displayName)
               /\ v.photoURL = (IF fu.photoURL = Null THEN "undefined" ELSE fu.photoURL)
               /\ \A u \in Uids \ {call[c].uid} : store'[u] = store[u]]_vars

\* a sign-in has created the document of an unseen uid and returned it
C1_Witness ==
    \E c \in Callers :
        /\ Ok(c) /\ call[c].op \in SignInOps
        /\ call[c].newUser # NullUser
        /\ store[call[c].uid] = call[c].value
        /\ call[c].value.role = "creator"
        /\ call[c].value.displayName = "G"

\* C2: when the lookup of a sign-in returns while a document is stored for
\* the uid, the sign-in resolves at once with that document, unchanged, and
\* the store is not written.
C2_ResolveStoredVerbatim ==
    [][\A c \in Callers :
         (/\ call[c].op \in SignInOps
          /\ call[c].pc = "get"
          /\ call'[c].pc # "get"
          /\ call'[c].status # "err"
          /\ Exists(store[call[c].uid]))
         => /\ call'[c].pc = "done" /\ call'[c].status = "ok"
            /\ call'[c].value = store[call[c].uid]
            /\ store' = store]_vars

\* a sign-in has returned a stored user whose role, theme and interests are
\* not the defaults
C2_Witness ==
    \E c \in Callers :
        /\ Ok(c) /\ call[c].op \in SignInOps
        /\ call[c].newUser = NullUser
        /\ call[c].value = store[call[c].uid]
        /\ call[c].value.role = "consumer"
        /\ call[c].value.themePreference = "dark"
        /\ call[c].value.interests = "i1"

\* C3: every uid has at most one document, stored under its own uid, and a
\* document whose role is not the default never gets the default role back
\* from a resolve-or-create.
C3_RoleSticky ==
    [][\A u \in Uids :
         /\ Exists(store'[u]) => store'[u].uid = u
         /\ (Exists(store[u]) /\ store[u].role # "creator")
               => store'[u].role # "creator"]_vars

\* C4: once a sign-in that was made with nothing else in flight has failed
\* and the listener invocations it caused have called back, the session is
\* the one the call started from.
C4_FailedSignInKeepsSession ==
    \A c \in Callers :
        (Failed(c) /\ call[c].op \in SignInOps /\ call[c].solo /\ tasks = {})
        => /\ user = call[c].pre.user
           /\ loading = call[c].pre.loading

\* C5: after a sign-out made with nothing else in flight has failed, the call
\* has raised an error and the session is the one the call started from.
C5_FailedSignOutKeepsSession ==
    \A c \in Callers :
        (Failed(c) /\ call[c].op = "signOut" /\ call[c].solo)
        => /\ call[c].msg # ""
           /\ user = call[c].pre.user
           /\ loading = call[c].pre.loading

\* a sign-out from an Authenticated session has failed
C5_Witness ==
    \E c \in Callers :
        /\ Failed(c) /\ call[c].op = "signOut" /\ call[c].solo
        /\ Authenticated(call[c].pre)
        /\ user = call[c].pre.user
        /\ call[c].msg = "Network error. Please check your connection."

\* C6: after a sign-out made from an Authenticated session with nothing else
\* in flight has succeeded, the session is Unauthenticated and the current
\* user read returns none.
C6_SignOutClearsSession ==
    \A c \in Callers :
        (Ok(c) /\ call[c].op = "signOut" /\ call[c].solo /\ Mounted
           /\ Authenticated(call[c].pre))
        => /\ user = NullUser
           /\ loading = FALSE
           /\ getCurrentUser = NullUser

\* a sign-out from an Authenticated session has succeeded
C6_Witness ==
    \E c \in Callers :
        /\ Ok(c) /\ call[c].op = "signOut" /\ call[c].solo /\ Mounted
        /\ Authenticated(call[c].pre)
        /\ user = NullUser

\* C7: the session is Initializing, Unauthenticated or Authenticated: it
\* never holds a user while loading.
C7_ThreeSessionStates ==
    \/ (loading /\ user = NullUser)
    \/ (~loading /\ user = NullUser)
    \/ (~loading /\ user # NullUser)

\* C8: a subscriber's callback is invoked only while it is subscribed.
C8_NoCallbackAfterUnsubscribe ==
    [][\A x \in Subscribers :
         Len(delivered'[x]) > Len(delivered[x]) => sub[x] = "on"]_vars

\* C9: a subscriber gets the credential changes in the order the provider
\* announced them, and has got all of them once no listener invocation is
\* suspended.
C9_InOrderDelivery ==
    \A x \in Subscribers :
        /\ \A i, j \in DOMAIN delivered[x] :
              i < j => delivered[x][i] < delivered[x][j]
        /\ (sub[x] = "on" /\ authReady /\ tasks = {})
              => Len(delivered[x]) = nEvents

\* C10: once a sign-in or sign-up made from an Unauthenticated session, or a
\* sign-out made from an Authenticated one, with nothing else in flight, has
\* succeeded and the listener invocations it caused have called back, the
\* session has been updated exactly once.
C10_ExactlyOneUpdate ==
    \A c \in Callers :
        (/\ Ok(c) /\ call[c].solo /\ Mounted /\ tasks = {}
         /\ \/ (call[c].op \in SignInOps \cup {"signUp"}
                  /\ call[c].pre.user = NullUser /\ ~call[c].pre.loading)
            \/ (call[c].op = "signOut" /\ Authenticated(call[c].pre)))
        => nSetUser = 1


\* C11: on a fresh process whose restored credential is none, once the
\* provider has made its first announcement the session is Unauthenticated
\* (loading false, no user) and the current user read returns none.
C11_FreshStartUnauthenticated ==
    (authReady /\ nOps = 0 /\ authUser = Null /\ Mounted)
    => /\ loading = FALSE
       /\ user = NullUser
       /\ getCurrentUser = NullUser

\* the first announcement, of no credential, has been delivered
C11_Witness ==
    /\ authReady /\ nOps = 0 /\ authUser = Null /\ Mounted
    /\ delivered["ctx"] = <<1>>
    /\ loading = FALSE

\* C12: on process start, when the listener invocation for the restored
\* credential completes its resolve-or-create, the session becomes
\* Authenticated with the document stored for that credential (the one found,
\* else the one just created) and loading is false.
C12_RestorationAuthenticates ==
    [][\A t \in tasks :
         (/\ nOps = 0 /\ Mounted
          /\ t.sub = "ctx" /\ t.seq = 1
          /\ Len(delivered'["ctx"]) > Len(delivered["ctx"])
          /\ (TaskGetDocOk(t) \/ TaskSetDocOk(t)))
         => /\ loading' = FALSE
            /\ user' # NullUser
            /\ user'.uid = authUser
            /\ user' = store'[authUser]
            /\ Exists(store[authUser]) => (user' = store[authUser] /\ store' = store)]_vars

\* the session of a restored credential has been resolved from a stored
\* document that does not carry the defaults
C12_Witness ==
    /\ nOps = 0 /\ Mounted /\ authReady /\ tasks = {}
    /\ delivered["ctx"] = <<1>>
    /\ user = StoredU1
    /\ loading = FALSE

\* C13: when signInWithGoogle or signInWithEmail returns successfully on a
\* mounted provider, the session holds the returned user and is
\* Authenticated.
C13_SignInReturnsSessionUser ==
    [][\A c \in Callers :
         (/\ call[c].op \in SignInOps
          /\ call[c].pc # "done"
          /\ call'[c].pc = "done" /\ call'[c].status = "ok"
          /\ Mounted)
         => /\ call'[c].value # NullUser
            /\ user' = call'[c].value
            /\ loading' = FALSE]_vars


\* C14: when signUpWithEmail returns successfully on a mounted provider, the
\* returned user has role creator, theme light and the display name that was
\* supplied, its document is in the store under the new uid, and the session
\* is Authenticated with it.
C14_SignUpCreatesSessionUser ==
    [][\A c \in Callers :
         (/\ call[c].op = "signUp"
          /\ call[c].pc # "done"
          /\ call'[c].pc = "done" /\ call'[c].status = "ok"
          /\ Mounted)
         => LET v == call'[c].value IN
            /\ v.uid = call[c].uid
            /\ v.role = "creator"
            /\ v.themePreference = "light"
            /\ v.displayName = call[c].name
            /\ store'[call[c].uid] = v
            /\ user' = v
            /\ loading' = FALSE]_vars

\* C15: once a sign-up made with nothing else in flight has failed and the
\* listener invocations it caused have called back, the session is the one
\* the call started from and has not been updated.
C15_FailedSignUpKeepsSession ==
    \A c \in Callers :
        (Failed(c) /\ call[c].op = "signUp" /\ call[c].solo /\ tasks = {})
        => /\ user = call[c].pre.user
           /\ loading = call[c].pre.loading
           /\ nSetUser = 0

\* C16: a sign-out that succeeds while the session is Unauthenticated leaves
\* the session as it is and invokes no subscriber callback.
C16_SignOutWhenUnauthenticated ==
    [][\A c \in Callers :
         (/\ call[c].op = "signOut"
          /\ call[c].pc = "provider"
          /\ call'[c].pc = "done" /\ call'[c].status = "ok"
          /\ Mounted
          /\ user = NullUser /\ ~loading)
         => UNCHANGED <<user, loading, delivered>>]_vars


\* C17: a failed sign-in, sign-up or sign-out carries the message that
\* getAuthErrorMessage gives for the code it caught: for each of the twelve
\* known codes a message that is neither the default nor the message of
\* another known code, and for every other code, a missing code included,
\* the default message.
C17_ErrorMessageMapping ==
    \A c \in Callers :
        Failed(c) =>
            LET code == call[c].code
                msg == call[c].msg
            IN /\ msg = getAuthErrorMessage(code)
               /\ code \in KnownErrorCodes =>
                      /\ msg # DefaultErrorMessage
                      /\ \A k \in KnownErrorCodes \ {code} : msg # getAuthErrorMessage(k)
               /\ code \notin KnownErrorCodes => msg = DefaultErrorMessage

C17_Witness ==
    /\ Failed(1)
    /\ call[1].op = "email"
    /\ call[1].code = "auth/invalid-credential"
    /\ call[1].msg = "Invalid credentials. Please check your email and password."

\* C18: a sign-in fails on the write of the new user's document only after
\* the write has been attempted three times.
C18_StoreWritesRetried ==
    \A c \in Callers :
        (/\ Failed(c)
         /\ call[c].op \in SignInOps
         /\ call[c].code = StoreErrorCode
         /\ call[c].writes > 0)
        => call[c].writes = DefaultMaxRetries

Finished == retry.pc \in {"returned", "thrown"}

\* what retryWithBackoff guarantees when called with maxRetries >= 1, and
\* what it does when called with maxRetries = 0
RetryContract ==
    LET r == retry
        n == Len(r.log)
    IN /\ n <= r.maxRetries
       /\ \A k \in 1..Len(r.delays) : r.delays[k] = r.baseDelay * 2^(k - 1)
       /\ r.pc = "call" => Len(r.delays) = n
       /\ r.pc = "sleep" => Len(r.delays) = n /\ n < r.maxRetries
       /\ r.pc = "returned" =>
              /\ n >= 1
              /\ r.log[n].ok /\ r.result = r.log[n].v
              /\ \A k \in 1..(n - 1) : ~r.log[k].ok
              /\ Len(r.delays) = n - 1
       /\ (r.pc = "thrown" /\ r.maxRetries >= 1) =>
              /\ n = r.maxRetries
              /\ \A k \in 1..n : ~r.log[k].ok
              /\ r.error = r.log[n].v
              /\ Len(r.delays) = n - 1
       /\ (r.pc = "thrown" /\ r.maxRetries = 0) =>
              /\ n = 0
              /\ r.error = "Max retries exceeded"
              /\ r.delays = << >>

\* C19: called with maxRetries >= 1, retryWithBackoff invokes the operation
\* at least once and at most maxRetries times, returns the first success,
\* rethrows the last failure after maxRetries failures, waits
\* baseDelay * 2^k before attempt k+1 and not after the last failed
\* attempt; called with maxRetries = 0 it throws without invoking the
\* operation; and every call of it finishes.
C19_RetryWithBackoff ==
    /\ []RetryContract
    /\ (retry.pc # "idle") ~> Finished

C19_Witness ==
    /\ retry.pc = "thrown"
    /\ retry.maxRetries = DefaultMaxRetries
    /\ Len(retry.log) = DefaultMaxRetries
    /\ retry.delays = <<1000, 2000>>
    /\ retry.error = "e2"

\* C19 as stated: whatever maxRetries is, a finished retryWithBackoff has
\* invoked the operation at least once and at most maxRetries times, and
\* what it throws is the last failure of the operation.
C19_InvokedAtLeastOnce ==
    Finished =>
        /\ Len(retry.log) >= 1
        /\ Len(retry.log) <= retry.maxRetries
        /\ retry.pc = "thrown" => retry.error = retry.log[Len(retry.log)].v

\* C20: when getCurrentUser returns a user, the store holds the document
\* of that uid and the role and theme returned are the stored ones.
C20_CurrentUserAgreesWithStore ==
    (authReady /\ getCurrentUser # NullUser)
    => /\ Exists(store[authUser])
       /\ getCurrentUser.role = store[authUser].role
       /\ getCurrentUser.themePreference = store[authUser].themePreference


\* C21: the message of an operation that failed on the profile store is not
\* the message of any provider error, known or unknown.
C21_StoreFailureDistinctKind ==
    \A c \in Callers :
        (/\ Failed(c)
         /\ call[c].op \in SignInOps \cup {"signUp"}
         /\ call[c].code = StoreErrorCode)
        => call[c].msg \notin {getAuthErrorMessage(k) : k \in ErrorCodes}

\* C24: with no operation in flight and no listener invocation pending, the
\* mounted session has no user exactly when the provider has no current
\* user, and otherwise its user's uid is the provider's.
C24_QuiescentAgreement ==
    (Quiescent /\ Mounted)
    => /\ (user = NullUser) <=> (authUser = Null)
       /\ user # NullUser => user.uid = authUser

\* C25: when the store rejects inside a listener invocation of the mounted
\* provider's subscription, no operation is affected, the subscriber is
\* called back, and the session has no user and loading false afterwards,
\* while the provider's current user stays what it was.
C25_ListenerFailureCallsBackNull ==
    [][\A t \in tasks :
         (TaskStoreFail(t) /\ t.sub = "ctx" /\ Mounted)
         => /\ call' = call
            /\ delivered'["ctx"] = Append(delivered["ctx"], t.seq)
            /\ user' = NullUser
            /\ loading' = FALSE
            /\ authUser' = authUser]_vars

C25_Witness ==
    /\ Mounted /\ authReady /\ nOps = 0 /\ tasks = {}
    /\ authUser = "u1"
    /\ delivered["ctx"] = <<1>>
    /\ user = NullUser /\ loading = FALSE

\* C27: loading starts true, and no step sets it back to true once it is
\* false.
C27_LoadingMonotonic ==
    /\ loading = TRUE
    /\ [][loading = FALSE => loading' = FALSE]_vars

C27_Witness ==
    /\ nOps = MaxOps
    /\ Ok(1) /\ call[1].op = "signOut"
    /\ tasks = {}
    /\ loading = FALSE

\* C28: the user of the session always has a document in the store under
\* its uid.
C28_SessionUserIsStored ==
    user # NullUser => Exists(store[user.uid])

C28_Witness ==
    /\ Ok(1) /\ call[1].op = "signUp"
    /\ user = call[1].value
    /\ user.uid = "u2"
    /\ store["u2"] = user
    /\ loading = FALSE

\* C29: once a sign-up has returned and no listener invocation for the new
\* uid is pending, the stored document of that uid has the display name
\* given to the sign-up.
C29_SignUpDisplayNameWins ==
    \A c \in Callers :
        (/\ Ok(c) /\ call[c].op = "signUp"
         /\ \A t \in tasks : t.uid # call[c].uid)
        => store[call[c].uid].displayName = call[c].name

\* C30: no step removes a document from the store, and the completion of a
\* sign-out, successful or not, leaves the store as it is.
C30_StoreNeverShrinks ==
    [][/\ \A u \in Uids : Exists(store[u]) => Exists(store'[u])
       /\ \A c \in Callers :
            (call[c].op = "signOut" /\ call[c].pc = "provider" /\ call'[c].pc = "done")
            => store' = store]_vars

C30_Witness ==
    /\ Done(1) /\ call[1].op = "signOut"
    /\ Exists(store["u1"]) /\ Exists(store["u2"])
    /\ authUser = Null


\* C26: loading eventually is false, whether a credential is restored or
\* not and whether its profile is resolved or the store fails.
C26_InitializationFinishes ==
    <>(loading = FALSE)

C26_Witness ==
    /\ Mounted /\ authReady /\ nOps = 0 /\ tasks = {}
    /\ authUser = "u1" /\ user = NewUser(profile["u1"])
    /\ store["u1"] = user
    /\ loading = FALSE


\* C22: a call of useAuth() made outside an AuthProvider has thrown 'useAuth
\* must be used within an AuthProvider' and returned nothing; a call made
\* inside one has not thrown and has returned the provider's value.
C22_UseAuthOnlyInsideProvider ==
    hook.called =>
        IF hook.inside
        THEN /\ ~hook.threw
             /\ \E v \in hook.value : v.loading \in BOOLEAN
        ELSE /\ hook.threw
             /\ hook.msg = "useAuth must be used within an AuthProvider"
             /\ hook.value = {}

C22_Witness ==
    /\ hook.called /\ ~hook.inside /\ hook.threw
    /\ Mounted /\ user # NullUser


\* C23: when a sign-in and a sign-out that overlapped have both succeeded
\* and no listener invocation is pending, the session is the one of the
\* call that completed last: the signed-in user if that was the sign-in, no
\* user if it was the sign-out.
C23_LastCompletedWins ==
    \A a, b \in Callers :
        (/\ Ok(a) /\ call[a].op \in SignInOps /\ call[a].conc
         /\ Ok(b) /\ call[b].op = "signOut" /\ call[b].conc
         /\ tasks = {} /\ Mounted)
        => /\ loading = FALSE
           /\ user = IF call[a].ord > call[b].ord THEN call[a].value ELSE NullUser


\* C31: every document in the store is kept under its own uid, which is the
\* uid of the provider account whose email it carries; so no step gives a
\* stored document another uid.
C31_StoredUnderOwnUid ==
    \A u \in Uids :
        Exists(store[u])
        => /\ store[u].uid = u
           /\ Registered(u)
           /\ profile[u].uid = u
           /\ store[u].email = profile[u].email

C31_Witness ==
    /\ Ok(1) /\ call[1].op = "signUp" /\ call[1].uid = "u2"
    /\ store["u2"].uid = "u2"
    /\ store["u1"].uid = "u1"
    /\ tasks = {}


\* C32: AuthProvider's subscription exists from the mount on, once
\* unsubscribed it stays unsubscribed, and no step that changes the session
\* state touches it.
C32_SubscribesOnce ==
    /\ sub["ctx"] = "on"
    /\ [][/\ sub["ctx"] = "off" => sub'["ctx"] = "off"
          /\ sub'["ctx"] # "none"
          /\ (user' # user \/ loading' # loading) => sub'["ctx"] = sub["ctx"]]_vars

C32_Witness ==
    /\ sub["ctx"] = "off"
    /\ user # NullUser /\ loading = FALSE
    /\ Ok(1)
    /\ hook.called

\* C33: when one subscriber unsubscribes, the subscription, the delivered
\* notifications and the pending resolutions of the other stay as they
\* are; every credential change reaches each subscribed subscriber, at once
\* when there is no credential and as a resolution of its own otherwise;
\* and no subscriber gets a change twice.
C33_SubscribersIndependent ==
    [][\A x, y \in Subscribers :
         x # y =>
           /\ (sub[x] = "on" /\ sub'[x] = "off")
              => /\ sub'[y] = sub[y]
                 /\ delivered'[y] = delivered[y]
                 /\ {t \in tasks' : t.sub = y} = {t \in tasks : t.sub = y}
           /\ (sub[y] = "on" /\ nEvents' = nEvents + 1)
              => IF authUser' = Null
                 THEN delivered'[y] = Append(delivered[y], nEvents')
                 ELSE [seq |-> nEvents', sub |-> y, uid |-> authUser',
                       pc |-> "get", newUser |-> NullUser] \in tasks' \ tasks
           /\ \A i, j \in DOMAIN delivered'[y] :
                 i # j => delivered'[y][i] # delivered'[y][j]
           /\ \A t \in tasks' :
                 t.sub = y => /\ \A i \in DOMAIN delivered'[y] : delivered'[y][i] # t.seq
                              /\ \A t2 \in tasks' :
                                    (t2.sub = y /\ t2.seq = t.seq) => t2 = t]_vars

C33_Witness ==
    /\ sub["ctx"] = "off" /\ sub["obs"] = "on"
    /\ tasks = {}
    /\ Len(delivered["obs"]) > Len(delivered["ctx"])
    /\ Len(delivered["obs"]) >= 2


\* C34: a call of getCurrentUser() changes nothing but its own result; the
\* result is no user exactly when the provider has no current user, and
\* otherwise the uid, email, display name and photo of the provider's
\* current user with role creator and theme light, whatever the store holds.
C34_GetCurrentUserPureRead ==
    [][got' # got =>
         /\ UNCHANGED <<authVars, retry, hook>>
         /\ got'.value = NullUser <=> (~authReady \/ authUser = Null)
         /\ got'.value # NullUser =>
              LET fu == profile[authUser] IN
              got'.value =
                  [uid |-> authUser,
                   email |-> IF fu.email = Null THEN "" ELSE fu.email,
                   displayName |-> IF fu.displayName = Null THEN "" ELSE fu.displayName,
                   photoURL |-> IF fu.photoURL = Null THEN Undefined ELSE fu.photoURL,
                   role |-> "creator",
                   themePreference |-> "light",
                   interests |-> Undefined]]_vars

C34_Witness ==
    /\ got.called /\ got.value.uid = "u1"
    /\ got.value.role = "creator" /\ got.value.themePreference = "light"
    /\ store["u1"].role = "admin"
    /\ authUser = "u1"

====
